---- MODULE Spec2Model ----
(***************************************************************************)
(* IntentOnlyIntentParser (snips_nlu/intent_parser/                        *)
(* intent_only_intent_parser.py): the parser's lifecycle -- construction,  *)
(* fit, parse, persist, from_path -- over a heap of parser instances, a    *)
(* heap of intent classifiers and a small file system.                     *)
(*                                                                         *)
(* The collaborators the file imports (the classifier, the entity parsers, *)
(* validate_and_format_dataset, build_processing_unit,                     *)
(* load_processing_unit, the decorators fitted_required and                *)
(* check_persisted_path, the config type, the result constructors) are     *)
(* modelled at their interface, as spec.md describes them.                 *)
(***************************************************************************)
EXTENDS Naturals, Sequences, FiniteSets, TLC

\* ---------------------------------------------------------------- bounds
\* The number of parser instances: the constructed one and the restored ones.
\* Every parser owns at most one classifier, so this bounds that heap too.
MaxParsers == 2

\* The number of threads that call parse on one parser at the same time.
MaxThreads == 2

\* ---------------------------------------------------------------- values
\* Python's None, as a record so that it compares with every other value.
None == [kind |-> "none"]

Texts == {"t1", "t2"}
Labels == {"foo", "bar"}
Paths == {"pa"}

\* Datasets: two valid ones and one that validate_and_format_dataset rejects.
ValidDatasets == {"D1", "D2"}
InvalidDataset == "bad"
AllDatasets == ValidDatasets \cup {InvalidDataset}

\* Unit names: one registered classifier unit and one that is not registered.
RegisteredUnits == {"log_reg_intent_classifier"}
UnitNames == RegisteredUnits \cup {"unregistered_unit"}

\* Error names.  The source raises NotTrained (through fitted_required),
\* OSError for an existing persist target (through check_persisted_path) and
\* OSError("Missing probabilistic intent parser model file: ...") in
\* from_path; spec.md calls them NotTrainedError, AlreadyExistsError and
\* MissingFileError.
NoError == "ok"
NotTrainedError == "NotTrainedError"
AlreadyExistsError == "AlreadyExistsError"
MissingFileError == "MissingFileError"
DatasetFormatError == "DatasetFormatError"
UnknownUnitError == "UnknownUnitError"
ClassifierFitError == "ClassifierFitError"
FileNotFoundError == "FileNotFoundError"
Interrupted == "Interrupted"

\* ---------------------------------------------------------------- config
Config(u) == [intent_classifier_config |-> [unit_name |-> u]]
Configs == {Config(u) : u \in UnitNames}

\* config.to_dict(): the dict form carries the parser's unit name too.
to_dict(config) ==
    [unit_name |-> "intent_only_intent_parser",
     intent_classifier_config |-> config.intent_classifier_config]

\* config_type.from_dict(d)
from_dict(d) ==
    [intent_classifier_config |-> d.intent_classifier_config]

\* ---------------------------------------------------------------- entity parsers
EP(type, data) == [kind |-> "entity_parser", type |-> type, data |-> data]

\* The **shared keyword arguments of __init__ and from_path.
SharedChoices ==
    {[builtin_entity_parser |-> None, custom_entity_parser |-> None],
     [builtin_entity_parser |-> EP("builtin", "D1"),
      custom_entity_parser |-> EP("custom", "D1")]}

\* fit_builtin_entity_parser_if_needed / fit_custom_entity_parser_if_needed:
\* a parser already fit against this dataset is kept, otherwise one is built.
fit_entity_parser_if_needed(ep, type, dataset) ==
    IF ep # None /\ ep.data = dataset THEN ep ELSE EP(type, dataset)

\* ---------------------------------------------------------------- classifier
NoWeights == "none"

\* build_processing_unit(config): a new, unfitted classifier.
NewClassifier(unit_config) ==
    [unit_name |-> unit_config.unit_name,
     weights |-> NoWeights,
     builtin_entity_parser |-> None,
     custom_entity_parser |-> None]

\* intent_classifier.fitted
ClassifierFitted(c) == c.weights # NoWeights

\* The best match of a classifier trained on a dataset, for a text.
Best(weights, text) ==
    CASE weights = "D1" /\ text = "t1" -> "foo"
      [] weights = "D1" /\ text = "t2" -> "bar"
      [] weights = "D2" /\ text = "t1" -> "bar"
      [] OTHER -> "none"

IntentResult(label) == [kind |-> "intent", intentName |-> label]

RECURSIVE SeqContains(_, _)
SeqContains(s, x) ==
    IF s = <<>> THEN FALSE
    ELSE IF Head(s) = x THEN TRUE ELSE SeqContains(Tail(s), x)

\* intent_classifier.get_intent(text, intents): None when nothing matches or
\* the best match is outside the scope.
get_intent(c, text, intents) ==
    LET best == Best(c.weights, text)
        inScope == CASE intents.kind = "none" -> TRUE
                     [] intents.kind = "list" -> SeqContains(intents.val, best)
                     [] OTHER -> intents.val = best
    IN IF best = "none" \/ ~inScope THEN None ELSE IntentResult(best)

\* ---------------------------------------------------------------- results
\* parsing_result(input, intent, slots)
parsing_result(text, intent, slots) ==
    [kind |-> "result", input |-> text, intent |-> intent, slots |-> slots]

\* empty_result(input)
empty_result(text) == parsing_result(text, None, <<>>)

\* ---------------------------------------------------------------- state
VARIABLES
    parsers,        \* heap of IntentOnlyIntentParser instances
    classifiers,    \* heap of intent classifier instances (None: not allocated)
    fs,             \* the file system: a directory (or None) per path
    last,           \* the last call: its arguments, outcome and collaborator calls
    threads,        \* the parse calls in progress, one per thread
    factory         \* per parser: build_processing_unit calls made and
                    \* classifiers built, each counted as 0, 1 or 2 (two or more)

vars == <<parsers, classifiers, fs, last, threads, factory>>

\* The value of the intents argument of parse: None, a str, or a list of str.
ScopeLists == {<<"foo">>, <<"bar", "foo">>}
IntentsArgs ==
    {None} \cup {[kind |-> "str", val |-> "foo"]}
           \cup {[kind |-> "list", val |-> s] : s \in ScopeLists}

\* One call record: the operation, the parser it ran on (0 for a class
\* method), its arguments, the error raised (NoError when it returned), the
\* value returned, the collaborator calls it made in order, and the value it
\* forwarded to the classifier.
Call(op, self, args, error, result, calls, forwarded) ==
    [op |-> op, self |-> self, args |-> args, error |-> error,
     result |-> result, calls |-> calls, forwarded |-> forwarded]

Self(i) == [kind |-> "parser", id |-> i]

\* A thread's parse call: where it is (idle, checked: past fitted_required,
\* done: returned or raised), its arguments, its local intents and its outcome.
Threads == 1..MaxThreads

IdleThread ==
    [pc |-> "idle", self |-> 0, text |-> "", intents |-> None,
     scope |-> None, error |-> NoError, result |-> None]

\* ---------------------------------------------------------------- __init__
\* IntentOnlyIntentParser(config, **shared)
NewParser(config, shared) ==
    [config |-> config,
     intent_classifier |-> 0,
     builtin_entity_parser |-> shared.builtin_entity_parser,
     custom_entity_parser |-> shared.custom_entity_parser]

\* fitted that only looks at the presence of a classifier.
fitted_PresenceOnly(p) ==
    p.intent_classifier # 0

\* fitted that takes an absent classifier for a fitted one.
fitted_OrAbsent(p) ==
    p.intent_classifier = 0 \/ ClassifierFitted(classifiers[p.intent_classifier])

\* The fitted property.  intent_classifier is an index into the classifier
\* heap, 0 for None.
fitted(p) ==
    p.intent_classifier # 0 /\ ClassifierFitted(classifiers[p.intent_classifier])

\* The state after one parser was constructed; every other parser instance
\* comes from from_path.
Init ==
    /\ \E config \in Configs, shared \in SharedChoices :
          parsers = <<NewParser(config, shared)>>
    /\ classifiers = [id \in 1..MaxParsers |-> None]
    /\ fs = [path \in Paths |-> None]
    /\ last = Call("__init__", 1, None, NoError, None, <<>>, None)
    /\ threads = [t \in Threads |-> IdleThread]
    /\ factory = [i \in 1..MaxParsers |-> [calls |-> 0, built |-> 0]]

\* ---------------------------------------------------------------- fit
\* Retrain decisions that ignore the classifier's state.
ShouldTrain_ForceOnly(force_retrain, classifier_fitted) ==
    force_retrain

ShouldTrain_Always(force_retrain, classifier_fitted) ==
    TRUE

\* The retrain decision of fit.
ShouldTrain(force_retrain, classifier_fitted) ==
    force_retrain \/ ~classifier_fitted

\* The parser after the two fit_*_entity_parser_if_needed calls.
FitEntityParsers(p, dataset) ==
    [p EXCEPT
       !.builtin_entity_parser =
           fit_entity_parser_if_needed(p.builtin_entity_parser, "builtin", dataset),
       !.custom_entity_parser =
           fit_entity_parser_if_needed(p.custom_entity_parser, "custom", dataset)]

\* fit that hands the entity parsers only to a classifier that has none.
InjectEntityParsers_OnlyWhenUnset(c, p) ==
    IF c.builtin_entity_parser = None /\ c.custom_entity_parser = None
    THEN [c EXCEPT !.builtin_entity_parser = p.builtin_entity_parser,
                   !.custom_entity_parser = p.custom_entity_parser]
    ELSE c

\* The classifier after fit assigned the parser's entity-parser references.
InjectEntityParsers(c, p) ==
    [c EXCEPT !.builtin_entity_parser = p.builtin_entity_parser,
              !.custom_entity_parser = p.custom_entity_parser]

\* The classifier's own fit(dataset), completed.
ClassifierFit(c, dataset) == [c EXCEPT !.weights = dataset]

\* What a classifier fit that raises may leave behind: the classifier as it
\* was, or one that lost its trained state.
ClassifierFitFailed(c, outcome) ==
    IF outcome = "raises_reset" THEN [c EXCEPT !.weights = NoWeights] ELSE c

FitOutcomes == {"ok", "raises", "raises_reset"}

FitPrefixCalls ==
    <<"validate_and_format_dataset",
      "fit_builtin_entity_parser_if_needed",
      "fit_custom_entity_parser_if_needed">>

\* The heap address of the classifier that parser i constructs or loads.  A
\* parser owns at most one classifier in its life, so its own index is fresh.
NewClassifierId(i) == i

\* One more build_processing_unit call on a count that tells none, one and
\* two or more apart.
CountCall(n) ==
    IF n < 2 THEN n + 1 ELSE 2

\* fit that builds a classifier on every call.
NeedsClassifier_Always(p) ==
    TRUE

\* if self.intent_classifier is None
NeedsClassifier(p) ==
    p.intent_classifier = 0

\* fit that swallows what the classifier's fit raises.
FitError_Swallowed(classifier_fit) ==
    NoError

\* What fit raises when the classifier's fit ended as classifier_fit: the
\* call is not wrapped, so the classifier's error is the caller's.
FitError(classifier_fit) ==
    IF classifier_fit = "ok" THEN NoError ELSE ClassifierFitError

\* fit(dataset, force_retrain): classifier_fit is what the classifier's own
\* fit does when it is invoked.
Fit(i, dataset, force_retrain, classifier_fit) ==
    /\ i \in 1..Len(parsers)
    /\ LET p == parsers[i]
           args == [dataset |-> dataset, force_retrain |-> force_retrain]
           p1 == FitEntityParsers(p, dataset)
           build == NeedsClassifier(p)
           unit_config == p.config.intent_classifier_config
           cid == IF build THEN NewClassifierId(i) ELSE p.intent_classifier
           c0 == IF build THEN NewClassifier(unit_config) ELSE classifiers[cid]
           c1 == InjectEntityParsers(c0, p1)
           train == ShouldTrain(force_retrain, ClassifierFitted(c1))
           p2 == [p1 EXCEPT !.intent_classifier = cid]
           calls == FitPrefixCalls
                    \o (IF build THEN <<"build_processing_unit">> ELSE <<>>)
                    \o <<"set_builtin_entity_parser", "set_custom_entity_parser">>
                    \o (IF train THEN <<"intent_classifier.fit">> ELSE <<>>)
       IN
       IF dataset \notin ValidDatasets
       THEN \* validate_and_format_dataset raises
            /\ classifier_fit = "ok"
            /\ last' = Call("fit", i, args, DatasetFormatError, None,
                            <<"validate_and_format_dataset">>, None)
            /\ UNCHANGED <<parsers, classifiers, fs, factory>>
       ELSE IF build /\ unit_config.unit_name \notin RegisteredUnits
       THEN \* build_processing_unit raises
            /\ classifier_fit = "ok"
            /\ factory' = [factory EXCEPT ![i].calls = CountCall(@)]
            /\ parsers' = [parsers EXCEPT ![i] = p1]
            /\ last' = Call("fit", i, args, UnknownUnitError, None,
                            FitPrefixCalls \o <<"build_processing_unit">>, None)
            /\ UNCHANGED <<classifiers, fs>>
       ELSE /\ ~train => classifier_fit = "ok"
            /\ factory' = IF build
                          THEN [factory EXCEPT ![i].calls = CountCall(@),
                                               ![i].built = CountCall(@)]
                          ELSE factory
            /\ parsers' = [parsers EXCEPT ![i] = p2]
            /\ classifiers' =
                 [classifiers EXCEPT ![cid] =
                     IF ~train THEN c1
                     ELSE IF classifier_fit = "ok" THEN ClassifierFit(c1, dataset)
                     ELSE ClassifierFitFailed(c1, classifier_fit)]
            /\ last' = IF FitError(classifier_fit) = NoError
                       THEN Call("fit", i, args, NoError, Self(i), calls, None)
                       ELSE Call("fit", i, args, FitError(classifier_fit), None,
                                 calls, None)
            /\ UNCHANGED fs
    /\ UNCHANGED threads

\* ---------------------------------------------------------------- parse
\* parse without the normalisation of a single label.
NormalizeIntents_Skip(intents) ==
    intents

\* if isinstance(intents, str): intents = [intents]
NormalizeIntents(intents) ==
    IF intents.kind = "str"
    THEN [kind |-> "list", val |-> <<intents.val>>]
    ELSE intents

\* parse with the test of the intent result inverted.
ParseResult_Inverted(text, intent_result) ==
    IF intent_result # None
    THEN empty_result(text)
    ELSE parsing_result(text, intent_result, <<>>)

\* The value parse returns for the classifier's intent result.
ParseResult(text, intent_result) ==
    IF intent_result = None
    THEN empty_result(text)
    ELSE parsing_result(text, intent_result, <<>>)

\* What parse(text, intents) does on parser i, behind the fitted_required
\* decorator: the call record.
ParseCall(i, text, intents) ==
    LET p == parsers[i]
        args == [text |-> text, intents |-> intents]
        scope == NormalizeIntents(intents)
    IN
    IF ~fitted(p)
    THEN Call("parse", i, args, NotTrainedError, None, <<>>, None)
    ELSE Call("parse", i, args, NoError,
              ParseResult(text,
                  get_intent(classifiers[p.intent_classifier], text, scope)),
              <<"intent_classifier.get_intent">>, scope)

\* parse(text, intents)
Parse(i, text, intents) ==
    /\ i \in 1..Len(parsers)
    /\ last' = ParseCall(i, text, intents)
    /\ UNCHANGED <<parsers, classifiers, fs, threads, factory>>

\* ---------------------------------------------------------------- parse, concurrently
\* The intents argument of the concurrent calls.
ConcurrentIntents ==
    {None, [kind |-> "str", val |-> "foo"], [kind |-> "list", val |-> <<"bar">>]}

\* parse that keeps the normalised intents in one place for all calls.
ScopeOf_Shared(t) ==
    threads[1].scope

\* The local variable intents of thread t's call.
ScopeOf(t) ==
    threads[t].scope

\* Thread t enters parse(text, intents) on parser i: fitted_required reads
\* fitted, then the body normalises its local intents.
ParseBegin(t, i, text, intents) ==
    /\ threads[t].pc = "idle"
    /\ i \in 1..Len(parsers)
    /\ threads' = [threads EXCEPT ![t] =
          IF ~fitted(parsers[i])
          THEN [pc |-> "done", self |-> i, text |-> text, intents |-> intents,
                scope |-> None, error |-> NotTrainedError, result |-> None]
          ELSE [pc |-> "checked", self |-> i, text |-> text, intents |-> intents,
                scope |-> NormalizeIntents(intents), error |-> NoError,
                result |-> None]]
    /\ UNCHANGED <<parsers, classifiers, fs, last, factory>>

\* Thread t reads self.intent_classifier, calls get_intent and builds the
\* result.
ParseFinish(t) ==
    /\ threads[t].pc = "checked"
    /\ LET th == threads[t]
           c == classifiers[parsers[th.self].intent_classifier]
       IN threads' = [threads EXCEPT ![t] =
              [th EXCEPT !.pc = "done",
                         !.result = ParseResult(th.text,
                                        get_intent(c, th.text, ScopeOf(t)))]]
    /\ UNCHANGED <<parsers, classifiers, fs, last, factory>>

\* The caller of thread t takes the outcome.
ParseReturn(t) ==
    /\ threads[t].pc = "done"
    /\ threads' = [threads EXCEPT ![t] = IdleThread]
    /\ UNCHANGED <<parsers, classifiers, fs, last, factory>>

\* fit is not called while a parse call is in progress (the call site
\* serialises it).
FitSerialised(i, dataset, force_retrain, classifier_fit) ==
    /\ \A t \in Threads : threads[t].pc = "idle"
    /\ Fit(i, dataset, force_retrain, classifier_fit)

\* ---------------------------------------------------------------- persist
\* A directory: the classifier subtree, the manifest and the metadata file,
\* each None while it is not written.
EmptyDir ==
    [kind |-> "dir", intent_classifier |-> None,
     intent_parser_json |-> None, metadata |-> None]

\* intent_classifier.persist(path / "intent_classifier"): the subtree holds the
\* unit name and the classifier's trained state.
PersistedClassifier(c) ==
    [kind |-> "dir", unit_name |-> c.unit_name, weights |-> c.weights]

\* A manifest that also records whether a classifier is there.
ModelJson_WithClassifier(p) ==
    [kind |-> "file",
     json |-> [config |-> to_dict(p.config),
               intent_classifier |-> p.intent_classifier # 0]]

\* json_string({"config": self.config.to_dict()}) written to intent_parser.json
ModelJson(p) ==
    [kind |-> "file", json |-> [config |-> to_dict(p.config)]]

\* persist_metadata(path)
Metadata(p) ==
    [kind |-> "file", unit_name |-> "intent_only_intent_parser"]

\* persist that never writes the classifier subtree.
PersistSteps_NoClassifier(p) ==
    <<"mkdir", "write_intent_parser_json", "persist_metadata">>

\* persist that writes the metadata before the classifier and the manifest.
PersistSteps_MetadataFirst(p) ==
    <<"mkdir", "persist_metadata">>
    \o (IF p.intent_classifier # 0 THEN <<"intent_classifier.persist">> ELSE <<>>)
    \o <<"write_intent_parser_json">>

\* persist that writes the manifest before the classifier subtree.
PersistSteps_ManifestFirst(p) ==
    <<"mkdir", "write_intent_parser_json">>
    \o (IF p.intent_classifier # 0 THEN <<"intent_classifier.persist">> ELSE <<>>)
    \o <<"persist_metadata">>

\* The write steps of persist, in program order.
PersistSteps(p) ==
    <<"mkdir">>
    \o (IF p.intent_classifier # 0 THEN <<"intent_classifier.persist">> ELSE <<>>)
    \o <<"write_intent_parser_json", "persist_metadata">>

\* The directory after one write step.
WriteStep(dir, step, p) ==
    CASE step = "mkdir" -> EmptyDir
      [] step = "intent_classifier.persist" ->
            [dir EXCEPT !.intent_classifier =
                PersistedClassifier(classifiers[p.intent_classifier])]
      [] step = "write_intent_parser_json" ->
            [dir EXCEPT !.intent_parser_json = ModelJson(p)]
      [] step = "persist_metadata" ->
            [dir EXCEPT !.metadata = Metadata(p)]

RECURSIVE RunSteps(_, _, _)
RunSteps(dir, steps, p) ==
    IF steps = <<>> THEN dir
    ELSE RunSteps(WriteStep(dir, Head(steps), p), Tail(steps), p)

\* check_persisted_path: the target of persist must not exist.
check_persisted_path(path) == fs[path] = None

\* persist without the decorator, writing into whatever is at the path.
PersistPlan_NoCheck(p, path) ==
    PersistSteps(p)

\* persist with the decorator's test inverted.
PersistPlan_Inverted(p, path) ==
    IF ~check_persisted_path(path) THEN PersistSteps(p) ELSE <<>>

\* The steps persist runs on a target: none when the decorator rejects it.
PersistPlan(p, path) ==
    IF check_persisted_path(path) THEN PersistSteps(p) ELSE <<>>

\* persist(path)
Persist(i, path) ==
    /\ i \in 1..Len(parsers)
    /\ LET p == parsers[i]
           steps == PersistPlan(p, path)
       IN
       IF steps = <<>>
       THEN /\ last' = Call("persist", i, [path |-> path], AlreadyExistsError,
                            None, <<>>, None)
            /\ UNCHANGED fs
       ELSE /\ fs' = [fs EXCEPT ![path] = RunSteps(fs[path], steps, p)]
            /\ last' = Call("persist", i, [path |-> path], NoError, None,
                            steps, None)
    /\ UNCHANGED <<parsers, classifiers, threads, factory>>

\* persist(path) interrupted (a crash, or a write that raises) after its
\* first k write steps: no rollback.
PersistInterrupted(i, path, k) ==
    /\ i \in 1..Len(parsers)
    /\ LET p == parsers[i]
           steps == PersistPlan(p, path)
       IN
       /\ k \in 1..(Len(steps) - 1)
       /\ fs' = [fs EXCEPT ![path] = RunSteps(fs[path], SubSeq(steps, 1, k), p)]
       /\ last' = Call("persist", i, [path |-> path], Interrupted, None,
                       SubSeq(steps, 1, k), None)
    /\ UNCHANGED <<parsers, classifiers, threads, factory>>

\* ---------------------------------------------------------------- from_path
\* from_path testing the directory instead of the model file.
ModelFileMissing_PathOnly(dir) ==
    dir = None

\* not model_path.exists()
ModelFileMissing(dir) ==
    dir = None \/ dir.intent_parser_json = None

\* from_path that never looks for the classifier subtree.
ClassifierPathExists_Never(dir) ==
    FALSE

\* intent_classifier_path.exists()
ClassifierPathExists(dir) ==
    dir.intent_classifier # None

\* load_processing_unit(path, **shared)
load_processing_unit(subtree, shared) ==
    [unit_name |-> subtree.unit_name,
     weights |-> subtree.weights,
     builtin_entity_parser |-> shared.builtin_entity_parser,
     custom_entity_parser |-> shared.custom_entity_parser]

\* cls(config=cls.config_type.from_dict(model["config"]), **shared)
ParserFromModel(model, shared) ==
    NewParser(from_dict(model.config), shared)

\* from_path(path, **shared)
FromPath(path, shared) ==
    LET dir == fs[path]
        args == [path |-> path, shared |-> shared]
    IN
    IF ModelFileMissing(dir)
    THEN /\ last' = Call("from_path", 0, args, MissingFileError, None,
                         <<"model_path.exists">>, None)
         /\ UNCHANGED <<parsers, classifiers, fs, threads, factory>>
    ELSE IF dir = None \/ dir.intent_parser_json = None
    THEN \* model_path.open() on a file that does not exist
         /\ last' = Call("from_path", 0, args, FileNotFoundError, None,
                         <<"model_path.exists", "model_path.open">>, None)
         /\ UNCHANGED <<parsers, classifiers, fs, threads, factory>>
    ELSE LET parser == ParserFromModel(dir.intent_parser_json.json, shared)
             load == ClassifierPathExists(dir)
             id == Len(parsers) + 1
         IN
         /\ Len(parsers) < MaxParsers
         /\ classifiers' =
              IF load
              THEN [classifiers EXCEPT ![NewClassifierId(id)] =
                       load_processing_unit(dir.intent_classifier, shared)]
              ELSE classifiers
         /\ parsers' =
              Append(parsers,
                     [parser EXCEPT !.intent_classifier =
                         IF load THEN NewClassifierId(id) ELSE 0])
         /\ last' = Call("from_path", 0, args, NoError, Self(id),
                         <<"model_path.exists", "json.load", "cls">>
                         \o (IF load THEN <<"load_processing_unit">> ELSE <<>>),
                         None)
         /\ UNCHANGED <<fs, threads, factory>>

\* ---------------------------------------------------------------- specification
Next ==
    \/ \E i \in 1..MaxParsers, dataset \in AllDatasets, force_retrain \in BOOLEAN,
          classifier_fit \in FitOutcomes :
          Fit(i, dataset, force_retrain, classifier_fit)
    \/ \E i \in 1..MaxParsers, text \in Texts, intents \in IntentsArgs :
          Parse(i, text, intents)
    \/ \E i \in 1..MaxParsers, path \in Paths : Persist(i, path)
    \/ \E i \in 1..MaxParsers, path \in Paths, k \in 1..3 :
          PersistInterrupted(i, path, k)
    \/ \E path \in Paths, shared \in SharedChoices : FromPath(path, shared)

Spec == Init /\ [][Next]_vars

\* One parser, fit by its owner while no call is in progress, and parse calls
\* of several threads interleaved step by step.
NextConcurrent ==
    \/ \E i \in 1..MaxParsers, dataset \in ValidDatasets, force_retrain \in BOOLEAN,
          classifier_fit \in FitOutcomes :
          FitSerialised(i, dataset, force_retrain, classifier_fit)
    \/ \E t \in Threads, i \in 1..MaxParsers, text \in Texts,
          intents \in ConcurrentIntents :
          ParseBegin(t, i, text, intents)
    \/ \E t \in Threads : ParseFinish(t)
    \/ \E t \in Threads : ParseReturn(t)

SpecConcurrent == Init /\ [][NextConcurrent]_vars

\* ---------------------------------------------------------------- properties
\* The classifier a parser holds is absent or not fitted, read off the heap.
Unfit(i) ==
    \/ parsers[i].intent_classifier = 0
    \/ classifiers[parsers[i].intent_classifier].weights = NoWeights

InCalls(call, name) ==
    \E n \in 1..Len(call.calls) : call.calls[n] = name

\* C1: a parse call on a parser whose classifier is absent or not fitted
\* raises NotTrainedError, whatever the text and the intents, makes no
\* collaborator call (get_intent is not invoked) and changes no state.
C1_UnfitParseRaisesNotTrained ==
    [][\A i \in 1..Len(parsers) :
          (last'.op = "parse" /\ last'.self = i /\ Unfit(i)) =>
              /\ last'.error = NotTrainedError
              /\ ~InCalls(last', "intent_classifier.get_intent")
              /\ last'.calls = <<>>
              /\ parsers' = parsers
              /\ classifiers' = classifiers
              /\ fs' = fs]_vars

\* A restored parser that holds a classifier which is not fitted was asked
\* to parse and raised.
C1_Witness ==
    /\ last.op = "parse"
    /\ last.error = NotTrainedError
    /\ last.self > 1
    /\ parsers[last.self].intent_classifier # 0

\* C2: a fit call that completes returns the parser it ran on, and that
\* parser then holds a classifier that is fitted.
C2_CompletedFitIsFitted ==
    (last.op = "fit" /\ last.error = NoError) =>
        /\ last.result = Self(last.self)
        /\ parsers[last.self].intent_classifier # 0
        /\ classifiers[parsers[last.self].intent_classifier].weights # NoWeights

\* A fit with force_retrain false completed on a restored parser and trained.
C2_Witness ==
    /\ last.op = "fit"
    /\ last.error = NoError
    /\ last.args.force_retrain = FALSE
    /\ last.self > 1
    /\ InCalls(last, "intent_classifier.fit")

\* C3: a fit call that reaches the training decision invokes the classifier's
\* fit exactly when force_retrain is true or the classifier is not fitted at
\* that point; and a fit with force_retrain false that follows a completed
\* fit with force_retrain false which trained does not train, and leaves the
\* classifier's trained state as the first call left it.
C3_RetrainPolicy ==
    [][\A i \in 1..Len(parsers) :
          (last'.op = "fit" /\ last'.self = i
             /\ last'.error \in {NoError, ClassifierFitError}) =>
              /\ InCalls(last', "intent_classifier.fit")
                    <=> (last'.args.force_retrain \/ Unfit(i))
              /\ (/\ last.op = "fit" /\ last.self = i /\ last.error = NoError
                  /\ last.args.force_retrain = FALSE
                  /\ InCalls(last, "intent_classifier.fit")
                  /\ last'.args.force_retrain = FALSE)
                 => /\ ~InCalls(last', "intent_classifier.fit")
                    /\ last'.error = NoError
                    /\ classifiers'[parsers'[i].intent_classifier].weights
                         = classifiers[parsers[i].intent_classifier].weights]_vars

\* A fit with force_retrain false on another dataset skipped the training:
\* the classifier still holds what it learnt before.
C3_Witness ==
    /\ last.op = "fit"
    /\ last.error = NoError
    /\ last.args.force_retrain = FALSE
    /\ ~InCalls(last, "intent_classifier.fit")
    /\ classifiers[parsers[last.self].intent_classifier].weights # last.args.dataset

\* last is a completed persist by parser i and the step is a completed
\* from_path of the same path, which returns parser j.
PersistThenFromPath(i, j) ==
    /\ last.op = "persist" /\ last.error = NoError /\ last.self = i
    /\ last'.op = "from_path" /\ last'.error = NoError
    /\ last'.args.path = last.args.path
    /\ last'.result = Self(j)

\* C4: persisting a fitted parser to a fresh path and restoring it with
\* from_path yields a parser with the same fitted value and the same parse
\* outcome for every text and every intents value.
C4_RoundTrip ==
    [][\A i \in 1..Len(parsers), j \in 1..MaxParsers :
          (PersistThenFromPath(i, j) /\ ~Unfit(i)) =>
              /\ fitted(parsers[j])' = fitted(parsers[i])
              /\ \A text \in Texts, intents \in IntentsArgs :
                    /\ ParseCall(j, text, intents)'.error
                         = ParseCall(i, text, intents).error
                    /\ ParseCall(j, text, intents)'.result
                         = ParseCall(i, text, intents).result]_vars

\* A fitted parser was persisted and restored, and the restored parser
\* matches an intent.
C4_Witness ==
    /\ last.op = "from_path"
    /\ last.error = NoError
    /\ fitted(parsers[1])
    /\ fitted(parsers[last.result.id])
    /\ ParseCall(last.result.id, "t1", None).result.intent # None

\* C5: a parser persisted in any state and then restored is fitted exactly
\* when the directory holds a classifier subtree and the persisted
\* classifier was fitted; a parser persisted without a classifier is
\* restored without one, not fitted, with the config it was persisted with.
C5_RestoredFittedMirrorsPersisted ==
    [][\A i \in 1..Len(parsers), j \in 1..MaxParsers :
          PersistThenFromPath(i, j) =>
              LET dir == fs[last.args.path]
                  q == parsers'[j]
                  qFitted == /\ q.intent_classifier # 0
                             /\ classifiers'[q.intent_classifier].weights # NoWeights
              IN
              /\ qFitted <=> (dir.intent_classifier # None /\ ~Unfit(i))
              /\ parsers[i].intent_classifier = 0 =>
                    /\ q.intent_classifier = 0
                    /\ ~qFitted
                    /\ q.config = parsers[i].config]_vars

\* A parser that was never fit was persisted and restored: the restored one
\* has no classifier.
C5_Witness ==
    /\ last.op = "from_path"
    /\ last.error = NoError
    /\ parsers[1].intent_classifier = 0
    /\ parsers[last.result.id].intent_classifier = 0
    /\ fs[last.args.path].intent_classifier = None

\* C6: persist on a path that exists raises AlreadyExistsError without any
\* write step, and the file system (and the parser) is as it was.
C6_PersistExistingPathRaises ==
    [][\A path \in Paths :
          (last'.op = "persist" /\ last'.args.path = path /\ fs[path] # None) =>
              /\ last'.error = AlreadyExistsError
              /\ last'.calls = <<>>
              /\ fs' = fs
              /\ parsers' = parsers
              /\ classifiers' = classifiers]_vars

\* persist was refused on a directory that an earlier persist completed.
C6_Witness ==
    /\ last.op = "persist"
    /\ last.error = AlreadyExistsError
    /\ fs[last.args.path] # None
    /\ fs[last.args.path].metadata # None

\* C7: from_path on a path without intent_parser.json raises the
\* missing-model-file error after the existence test alone: no parser is
\* constructed and no classifier is loaded, also when the directory holds an
\* intent_classifier subtree.
C7_FromPathMissingModelFile ==
    [][\A path \in Paths :
          (/\ last'.op = "from_path" /\ last'.args.path = path
           /\ (fs[path] = None \/ fs[path].intent_parser_json = None)) =>
              /\ last'.error = MissingFileError
              /\ ~InCalls(last', "cls")
              /\ ~InCalls(last', "load_processing_unit")
              /\ parsers' = parsers
              /\ classifiers' = classifiers
              /\ fs' = fs]_vars

\* from_path was refused on a directory that holds a classifier subtree and
\* no intent_parser.json.
C7_Witness ==
    /\ last.op = "from_path"
    /\ last.error = MissingFileError
    /\ fs[last.args.path] # None
    /\ fs[last.args.path].intent_classifier # None
    /\ fs[last.args.path].intent_parser_json = None

C9_ScopePassedThrough ==
    [][(last'.op = "parse" /\ last'.error = NoError) =>
          LET given == last'.args.intents
              c == classifiers[parsers[last'.self].intent_classifier]
          IN
          /\ last'.forwarded =
                IF given.kind = "str"
                THEN [kind |-> "list", val |-> <<given.val>>]
                ELSE given
          /\ (/\ last.op = "parse" /\ last.error = NoError
              /\ last.self = last'.self
              /\ last.args.text = last'.args.text
              /\ last.args.intents.kind = "str"
              /\ given = [kind |-> "list", val |-> <<last.args.intents.val>>])
             => last'.result = last.result
          /\ (/\ given = [kind |-> "list", val |-> <<"foo">>]
              /\ Best(c.weights, last'.args.text) # "foo")
             => last'.result =
                   [kind |-> "result", input |-> last'.args.text,
                    intent |-> None, slots |-> <<>>]]_vars

\* parse with the single label "foo" on a text whose best match is bar: the
\* list ["foo"] was forwarded and the result is empty.
C9_Witness ==
    /\ last.op = "parse"
    /\ last.error = NoError
    /\ last.args.intents = [kind |-> "str", val |-> "foo"]
    /\ last.forwarded = [kind |-> "list", val |-> <<"foo">>]
    /\ Best(classifiers[parsers[last.self].intent_classifier].weights,
            last.args.text) = "bar"
    /\ last.result.intent = None

\* C10: a persist call on a path that does not exist, when it is not
\* interrupted, returns and has written the manifest and the metadata,
\* whatever the parser's state; no persist call changes a parser or a
\* classifier.
C10_PersistFreshPathKeepsState ==
    [][\A path \in Paths :
          (last'.op = "persist" /\ last'.args.path = path) =>
              /\ parsers' = parsers
              /\ classifiers' = classifiers
              /\ (fs[path] = None /\ last'.error # Interrupted) =>
                    /\ last'.error = NoError
                    /\ fs'[path].intent_parser_json # None
                    /\ fs'[path].metadata # None]_vars

\* A parser that holds a classifier which is not fitted was persisted.
C10_Witness ==
    /\ last.op = "persist"
    /\ last.error = NoError
    /\ parsers[last.self].intent_classifier # 0
    /\ Unfit(last.self)
    /\ fs[last.args.path].intent_classifier # None

\* C11: while parser i is fitted, no step of a parse call changes a parser,
\* a classifier or the file system; the parser stays fitted; no call in
\* progress on it has raised; and every call that is done holds the result
\* the same call gives when it runs alone.
C11_ConcurrentParse ==
    [][\A i \in 1..Len(parsers) :
          (~Unfit(i) /\ threads' # threads) =>
              /\ parsers' = parsers
              /\ classifiers' = classifiers
              /\ fs' = fs
              /\ ~Unfit(i)'
              /\ \A t \in Threads :
                    (threads'[t].pc # "idle" /\ threads'[t].self = i) =>
                        /\ threads'[t].error = NoError
                        /\ threads'[t].pc = "done" =>
                              threads'[t].result =
                                 ParseCall(i, threads'[t].text,
                                           threads'[t].intents).result]_vars

\* Two calls overlap: thread 2 got its result for scope ["bar"] while thread 1
\* is between the fitted check and get_intent with no scope.
C11_Witness ==
    /\ threads[1].pc = "checked"
    /\ threads[1].intents = None
    /\ threads[2].pc = "done"
    /\ threads[2].intents = [kind |-> "list", val |-> <<"bar">>]
    /\ threads[2].text = threads[1].text
    /\ threads[2].result.intent = None
    /\ Best(classifiers[parsers[1].intent_classifier].weights, threads[1].text)
         = "foo"

\* C12: after a persist that returned, the directory holds the
\* intent_classifier subtree exactly when the parser holds a classifier, and
\* intent_parser.json holds the single key config, with the dict form of the
\* parser's config; nothing of the classifier's trained state is in it.
C12_PersistedLayout ==
    (last.op = "persist" /\ last.error = NoError) =>
        LET dir == fs[last.args.path]
            p == parsers[last.self]
            model == dir.intent_parser_json.json
        IN
        /\ (dir.intent_classifier # None) <=> (p.intent_classifier # 0)
        /\ dir.intent_parser_json # None
        /\ DOMAIN model = {"config"}
        /\ model.config.intent_classifier_config
             = p.config.intent_classifier_config
        /\ DOMAIN model.config = {"unit_name", "intent_classifier_config"}
        /\ DOMAIN model.config.intent_classifier_config = {"unit_name"}

\* A fitted parser was persisted: the subtree holds the trained state, the
\* manifest the config.
C12_Witness ==
    /\ last.op = "persist"
    /\ last.error = NoError
    /\ ~Unfit(last.self)
    /\ fs[last.args.path].intent_classifier # None
    /\ fs[last.args.path].intent_classifier.weights # NoWeights
    /\ fs[last.args.path].intent_parser_json # None

\* The position of a collaborator call in a call record, 0 when absent.
CallIndex(call, name) ==
    IF InCalls(call, name)
    THEN CHOOSE n \in 1..Len(call.calls) : call.calls[n] = name
    ELSE 0

\* C13: after a fit call that reached the classifier (it returned, or the
\* classifier's fit raised), the classifier's builtin and custom entity
\* parsers are the parser's, which are fit on the call's dataset; the two
\* assignments come after the entity parsers were fit and before the
\* classifier's fit, and they are made when training is skipped too.
C13_EntityParsersInjected ==
    (last.op = "fit" /\ last.error \in {NoError, ClassifierFitError}) =>
        LET p == parsers[last.self]
            c == classifiers[p.intent_classifier]
            setBuiltin == CallIndex(last, "set_builtin_entity_parser")
            setCustom == CallIndex(last, "set_custom_entity_parser")
            train == CallIndex(last, "intent_classifier.fit")
        IN
        /\ c.builtin_entity_parser = p.builtin_entity_parser
        /\ c.custom_entity_parser = p.custom_entity_parser
        /\ p.builtin_entity_parser # None
        /\ p.builtin_entity_parser.data = last.args.dataset
        /\ p.custom_entity_parser # None
        /\ p.custom_entity_parser.data = last.args.dataset
        /\ CallIndex(last, "fit_builtin_entity_parser_if_needed") > 0
        /\ CallIndex(last, "fit_custom_entity_parser_if_needed") < setBuiltin
        /\ CallIndex(last, "fit_builtin_entity_parser_if_needed") < setBuiltin
        /\ setBuiltin < setCustom
        /\ train # 0 => setCustom < train

\* A restored parser, whose classifier was loaded with other entity parsers,
\* was fit with force_retrain false on another dataset: training was skipped
\* and the classifier has the parser's new entity parsers.
C13_Witness ==
    /\ last.op = "fit"
    /\ last.error = NoError
    /\ last.self > 1
    /\ last.args.dataset = "D2"
    /\ ~InCalls(last, "intent_classifier.fit")
    /\ ~InCalls(last, "build_processing_unit")
    /\ classifiers[parsers[last.self].intent_classifier].weights = "D1"
    /\ classifiers[parsers[last.self].intent_classifier].builtin_entity_parser
         = EP("builtin", "D2")

\* C14: the writes of a persist call, completed or interrupted, are an
\* initial part of: create the directory, persist the classifier subtree
\* (when the parser holds a classifier), write intent_parser.json, write the
\* metadata; a completed call made them all; and no directory holds the
\* metadata without intent_parser.json.
C14_PersistWriteOrder ==
    /\ \A path \in Paths :
          (fs[path] # None /\ fs[path].metadata # None) =>
              fs[path].intent_parser_json # None
    /\ (last.op = "persist" /\ last.error \in {NoError, Interrupted}) =>
          LET order == IF parsers[last.self].intent_classifier # 0
                       THEN <<"mkdir", "intent_classifier.persist",
                              "write_intent_parser_json", "persist_metadata">>
                       ELSE <<"mkdir", "write_intent_parser_json",
                              "persist_metadata">>
              n == Len(last.calls)
          IN
          /\ n \in 1..Len(order)
          /\ last.calls = SubSeq(order, 1, n)
          /\ last.error = NoError => n = Len(order)
          /\ last.error = Interrupted => n < Len(order)
          /\ (fs[last.args.path].intent_parser_json # None)
                <=> InCalls(last, "write_intent_parser_json")
          /\ (fs[last.args.path].metadata # None)
                <=> InCalls(last, "persist_metadata")
          /\ (fs[last.args.path].intent_classifier # None)
                <=> InCalls(last, "intent_classifier.persist")

\* A persist was interrupted after the manifest and before the metadata: the
\* directory holds the classifier subtree and intent_parser.json only.
C14_Witness ==
    /\ last.op = "persist"
    /\ last.error = Interrupted
    /\ last.calls = <<"mkdir", "intent_classifier.persist",
                      "write_intent_parser_json">>
    /\ fs[last.args.path].intent_parser_json # None
    /\ fs[last.args.path].metadata = None

\* C15: build_processing_unit is called only by a fit that finds
\* intent_classifier absent and it returns at most one classifier per parser
\* (it is called again only while intent_classifier is still absent, after
\* it raised UnknownUnitError); a parser that holds a classifier keeps that
\* classifier through every call, and a parser restored with a classifier
\* subtree never calls the factory.
C15_FactoryOnlyWhenAbsent ==
    [][/\ \A i \in 1..Len(parsers) :
             /\ factory'[i].calls # factory[i].calls =>
                   /\ last'.op = "fit"
                   /\ last'.self = i
                   /\ parsers[i].intent_classifier = 0
                   /\ InCalls(last', "build_processing_unit")
             /\ (last'.op = "fit" /\ last'.self = i
                   /\ InCalls(last', "build_processing_unit")) =>
                   parsers[i].intent_classifier = 0
             /\ parsers[i].intent_classifier # 0 =>
                   /\ parsers'[i].intent_classifier
                         = parsers[i].intent_classifier
                   /\ factory'[i] = factory[i]
       /\ \A i \in 1..Len(parsers') :
             /\ factory'[i].built <= 1
             /\ factory'[i].built = 1 => parsers'[i].intent_classifier # 0
             /\ (parsers'[i].intent_classifier # 0
                   /\ factory'[i].built = 0) => factory'[i].calls = 0
             /\ parsers'[i].intent_classifier = 0 => factory'[i].built = 0]_vars

\* A parser restored with its classifier subtree was fit with force_retrain
\* true: the classifier was trained again and the factory was never called.
C15_Witness ==
    /\ last.op = "fit"
    /\ last.error = NoError
    /\ last.self > 1
    /\ last.args.force_retrain
    /\ InCalls(last, "intent_classifier.fit")
    /\ ~InCalls(last, "build_processing_unit")
    /\ parsers[last.self].intent_classifier # 0
    /\ factory[last.self].calls = 0

\* C15 as stated: on one parser the factory is called at most once.
C15_FactoryCalledAtMostOnce ==
    \A i \in 1..Len(parsers) : factory[i].calls <= 1

\* C16: in every reachable state every parser's intent_classifier is absent
\* or refers to a classifier that exists, and its fitted value is true
\* exactly when the classifier is present and that classifier's fitted flag
\* is true; a parser that was just constructed has no classifier and is not
\* fitted.
C16_FittedIffClassifierFitted ==
    /\ \A i \in 1..Len(parsers) :
          LET ic == parsers[i].intent_classifier IN
          /\ ic # 0 => (ic \in DOMAIN classifiers /\ classifiers[ic] # None)
          /\ fitted(parsers[i])
                <=> (ic # 0 /\ classifiers[ic].weights # NoWeights)
    /\ last.op = "__init__" =>
          /\ parsers[last.self].intent_classifier = 0
          /\ fitted(parsers[last.self]) = FALSE

\* One parser holds a fitted classifier while another holds a classifier
\* that is not fitted.
C16_Witness ==
    \E i, j \in 1..Len(parsers) :
        /\ fitted(parsers[i])
        /\ parsers[j].intent_classifier # 0
        /\ ~fitted(parsers[j])

\* C17: a fit with an invalid dataset raises DatasetFormatError after the
\* validation call alone and changes nothing; a fit that fails on a parser
\* that is not fitted leaves it not fitted: after UnknownUnitError
\* intent_classifier is still absent, after a failure of the classifier's
\* own fit the classifier is assigned and not fitted, and every parse would
\* raise NotTrainedError; the call that follows such a failure raises
\* NotTrainedError when it is a parse and trains the classifier when it is a
\* fit with a valid dataset and force_retrain false.
C17_FailedFitLeavesUnfit ==
    [][\A i \in 1..Len(parsers) :
          /\ (last'.op = "fit" /\ last'.self = i) =>
                /\ (last'.args.dataset \notin ValidDatasets)
                      <=> (last'.error = DatasetFormatError)
                /\ last'.error = DatasetFormatError =>
                      /\ last'.calls = <<"validate_and_format_dataset">>
                      /\ parsers' = parsers
                      /\ classifiers' = classifiers
                      /\ fs' = fs
          /\ (last'.op = "fit" /\ last'.self = i /\ last'.error # NoError
                /\ Unfit(i)) =>
                /\ Unfit(i)'
                /\ ~fitted(parsers[i])'
                /\ last'.error = UnknownUnitError =>
                      /\ parsers[i].intent_classifier = 0
                      /\ parsers'[i].intent_classifier = 0
                      /\ classifiers' = classifiers
                /\ last'.error = ClassifierFitError =>
                      /\ parsers'[i].intent_classifier # 0
                      /\ classifiers'[parsers'[i].intent_classifier].weights
                            = NoWeights
                      /\ \A text \in Texts, intents \in IntentsArgs :
                            ParseCall(i, text, intents)'.error = NotTrainedError
          /\ (last.op = "fit" /\ last.self = i /\ last.error # NoError
                /\ Unfit(i)) =>
                /\ (last'.op = "parse" /\ last'.self = i) =>
                      last'.error = NotTrainedError
                /\ (/\ last.error = ClassifierFitError
                    /\ last'.op = "fit" /\ last'.self = i
                    /\ last'.args.dataset \in ValidDatasets
                    /\ ~last'.args.force_retrain) =>
                      InCalls(last', "intent_classifier.fit")]_vars

\* The fit of a new parser built its classifier and the classifier's own fit
\* raised: the classifier is assigned and the parser is not fitted.
C17_Witness ==
    /\ last.op = "fit"
    /\ last.error = ClassifierFitError
    /\ InCalls(last, "build_processing_unit")
    /\ InCalls(last, "intent_classifier.fit")
    /\ parsers[last.self].intent_classifier # 0
    /\ ~fitted(parsers[last.self])

\* C18: a parser that is fitted is still fitted after every fit (with either
\* force_retrain value), parse or persist call that completes, on it or on
\* another parser; and no call of any kind, completed or not, leaves a parser
\* that held a classifier without one.
C18_FittedMonotonic ==
    [][\A i \in 1..Len(parsers) :
          /\ (fitted(parsers[i]) /\ last'.error = NoError
                /\ last'.op \in {"fit", "parse", "persist"}) =>
                fitted(parsers[i])'
          /\ parsers[i].intent_classifier # 0 =>
                parsers'[i].intent_classifier # 0]_vars

\* The only parser was persisted while fitted on D1 and then completed a fit
\* on D2 with force_retrain true: it is fitted on D2.
C18_Witness ==
    /\ Len(parsers) = 1
    /\ fs["pa"] # None
    /\ fs["pa"].intent_classifier # None
    /\ fs["pa"].intent_classifier.weights = "D1"
    /\ last.op = "fit"
    /\ last.error = NoError
    /\ last.args.force_retrain
    /\ last.args.dataset = "D2"
    /\ fitted(parsers[1])
    /\ classifiers[parsers[1].intent_classifier].weights = "D2"

\* C19: after a persist that was interrupted after one of its write steps,
\* a from_path on its directory raises the missing-file error without
\* creating a parser when intent_parser.json was not yet written, and
\* otherwise returns a parser with the fitted value and the config of the
\* parser that was being persisted; and a persist to that path, by any
\* parser, raises AlreadyExistsError and writes nothing.
C19_InterruptedPersistRestores ==
    [][\A i \in 1..Len(parsers) :
          (last.op = "persist" /\ last.error = Interrupted /\ last.self = i) =>
              LET path == last.args.path IN
              /\ fs[path] # None
              /\ (last'.op = "from_path" /\ last'.args.path = path) =>
                    IF InCalls(last, "write_intent_parser_json")
                    THEN /\ last'.error = NoError
                         /\ \E j \in 1..Len(parsers') :
                               /\ j \notin 1..Len(parsers)
                               /\ last'.result = Self(j)
                               /\ fitted(parsers[j])' = fitted(parsers[i])
                               /\ parsers'[j].config = parsers[i].config
                    ELSE /\ last'.error = MissingFileError
                         /\ parsers' = parsers
                         /\ classifiers' = classifiers
              /\ (last'.op = "persist" /\ last'.args.path = path) =>
                    /\ last'.error = AlreadyExistsError
                    /\ last'.calls = <<>>
                    /\ fs' = fs]_vars

\* A parser was restored from a directory that holds no metadata, left by a
\* persist of a fitted parser interrupted after the manifest: the restored
\* parser is fitted.
C19_Witness ==
    /\ last.op = "from_path"
    /\ last.error = NoError
    /\ fs[last.args.path].metadata = None
    /\ fs[last.args.path].intent_classifier # None
    /\ fitted(parsers[last.result.id])
====
